---- MODULE Spec2Model ----
\* A model of gh-pr-reviewer (src/main.go): the run of main() against the
\* review cache on disk and the code host, and the text functions that turn
\* the assistant's response into a review.
\*
\* Text is modelled as Go strings are: a sequence of characters (one-character
\* strings), so that searching, lower-casing and splitting are computed.
EXTENDS Integers, Sequences, FiniteSets, TLC

\* ---------------------------------------------------------------- text

UpperLetters == <<"A","B","C","D","E","F","G","H","I","J","K","L","M",
                  "N","O","P","Q","R","S","T","U","V","W","X","Y","Z">>
LowerLetters == <<"a","b","c","d","e","f","g","h","i","j","k","l","m",
                  "n","o","p","q","r","s","t","u","v","w","x","y","z">>

\* strings.ToLower, one character
ToLowerChar(c) ==
    IF \E i \in DOMAIN UpperLetters : UpperLetters[i] = c
    THEN LowerLetters[CHOOSE i \in DOMAIN UpperLetters : UpperLetters[i] = c]
    ELSE c

\* strings.ToLower
ToLower(s) == [i \in 1..Len(s) |-> ToLowerChar(s[i])]

\* sub occurs in s at the 0-based offset i
OccursAt(s, sub, i) ==
    /\ i >= 0
    /\ i + Len(sub) <= Len(s)
    /\ \A j \in 1..Len(sub) : s[i + j] = sub[j]

\* strings.Index: the 0-based offset of the first occurrence, or -1
Index(s, sub) ==
    IF \E i \in 0..Len(s) : OccursAt(s, sub, i)
    THEN CHOOSE i \in 0..Len(s) :
            /\ OccursAt(s, sub, i)
            /\ \A k \in 0..(i - 1) : ~OccursAt(s, sub, k)
    ELSE -1

\* strings.Contains
Contains(s, sub) == Index(s, sub) >= 0

\* the part of s from the 0-based offset from (inclusive) to upto (exclusive)
Slice(s, from, upto) == SubSeq(s, from + 1, upto)

Digits == {"0","1","2","3","4","5","6","7","8","9"}
WordChars ==
    Digits \cup {"_"}
           \cup {UpperLetters[i] : i \in DOMAIN UpperLetters}
           \cup {LowerLetters[i] : i \in DOMAIN LowerLetters}
\* \s of Go's regexp syntax
RegexSpace == {" ", "\t", "\n", "\f", "\r"}
\* unicode.IsSpace over the characters of the model (strings.TrimSpace)
UnicodeSpace == {" ", "\t", "\n", "\f", "\r"}

\* strings.TrimSpace
TrimSpace(s) ==
    IF \A i \in 1..Len(s) : s[i] \in UnicodeSpace
    THEN <<>>
    ELSE LET first == CHOOSE i \in 1..Len(s) :
                         /\ s[i] \notin UnicodeSpace
                         /\ \A k \in 1..(i - 1) : s[k] \in UnicodeSpace
             last == CHOOSE i \in 1..Len(s) :
                         /\ s[i] \notin UnicodeSpace
                         /\ \A k \in (i + 1)..Len(s) : s[k] \in UnicodeSpace
         IN  Slice(s, first - 1, last)

\* strings.Split(s, sep) for a one-character separator: the pieces between
\* the occurrences of sep, in order (always at least one piece)
RECURSIVE Split(_, _)
Split(s, sep) ==
    IF \A i \in 1..Len(s) : s[i] # sep
    THEN <<s>>
    ELSE LET at == CHOOSE i \in 1..Len(s) :
                       /\ s[i] = sep
                       /\ \A k \in 1..(i - 1) : s[k] # sep
         IN  <<Slice(s, 0, at - 1)>> \o Split(Slice(s, at, Len(s)), sep)

\* ------------------------------------------------------- regular expressions
\* The patterns of src/main.go are sequences of literal strings and
\* quantified one-character classes, alternated at the top level only.  A
\* pattern is a sequence of items [cls, str, min, max, greedy]; Go's regexp
\* package matches leftmost first: at the leftmost offset where some
\* alternative matches, the first alternative that matches, each item
\* preferring more characters when greedy and fewer when lazy, in order.
\* max = -1 stands for no upper limit.  A match is computed from two tables
\* of offsets: those the items can reach from a start (Reach) and, of them,
\* those at which the rest of the pattern matches (Can); the match that
\* backtracking finds first takes, item by item, the preferred end after
\* which the rest matches (Take).

Str(str)         == [cls |-> "str", str |-> str,   min |-> 1,  max |-> 1,  greedy |-> TRUE]
Rep(cls, lo, hi) == [cls |-> cls,   str |-> <<>>,  min |-> lo, max |-> hi, greedy |-> TRUE]
LitRep(c, lo, hi) == [cls |-> "lit", str |-> <<c>>, min |-> lo, max |-> hi, greedy |-> TRUE]
Lazy(cls)        == [cls |-> cls,   str |-> <<>>,  min |-> 0,  max |-> -1, greedy |-> FALSE]

InClass(c, item) ==
    CASE item.cls = "lit"      -> c = item.str[1]
      [] item.cls = "space"    -> c \in RegexSpace
      [] item.cls = "digit"    -> c \in Digits
      [] item.cls = "word"     -> c \in WordChars
      [] item.cls = "notquote" -> c # "\""
      [] item.cls = "any"      -> TRUE

\* how many characters from offset pos on are in the item's class, up to max
RunLength(s, pos, item) ==
    LET cap == IF item.max < 0 \/ Len(s) - pos < item.max
               THEN Len(s) - pos ELSE item.max
    IN  CHOOSE n \in 0..cap :
            /\ n = cap \/ ~InClass(s[pos + n + 1], item)
            /\ \A m \in 0..(n - 1) : InClass(s[pos + m + 1], item)

NoMatch == <<-1>>

\* the least number of a set of numbers, none when the set is empty
LeastOr(S, none) ==
    IF S = {} THEN none ELSE CHOOSE n \in S : \A m \in S : n <= m

\* the offsets at which item can end when it begins at offset pos
Ends(item, s, pos) ==
    IF item.cls = "str"
    THEN IF OccursAt(s, item.str, pos) THEN {pos + Len(item.str)} ELSE {}
    ELSE (pos + item.min)..(pos + RunLength(s, pos, item))

\* acc = <<the offsets at which item 1 can begin, .., item k can begin>> is
\* extended to the offsets at which the items can end
RECURSIVE Reach(_, _, _)
Reach(items, s, acc) ==
    IF Len(acc) > Len(items) THEN acc
    ELSE Reach(items, s,
             Append(acc, {e : e \in UNION {Ends(items[Len(acc)], s, p) :
                                               p \in acc[Len(acc)]}}))

\* the offsets of begins at which item matches and ends at an offset of after
CanStart(item, s, begins, after) ==
    {p \in begins : Ends(item, s, p) \cap after # {}}

\* acc = <<the offsets at which items k.. match, .. k + 1.., .., the offsets
\* at which the items can end>> is extended to the front until it starts
\* with the offsets at which the whole of items matches
RECURSIVE CanTable(_, _, _, _)
CanTable(items, s, reach, acc) ==
    IF Len(acc) > Len(items) THEN acc
    ELSE CanTable(items, s, reach,
             <<CanStart(items[Len(items) - Len(acc) + 1], s,
                        reach[Len(items) - Len(acc) + 1], acc[1])>> \o acc)

\* the table of the offsets that Reach has found
CanOfReach(items, s, reach) ==
    CanTable(items, s, reach, <<reach[Len(items) + 1]>>)

\* Can(items, s, from)[k]: the offsets at which the items k.. of a pattern
\* match in a match of the pattern that starts at or after offset from
Can(items, s, from) == CanOfReach(items, s, Reach(items, s, <<from..Len(s)>>))

\* the offset at which item ends when it begins at pos and what follows it
\* matches at the offsets of after: backtracking tries the longest first when
\* the item is greedy and the shortest first when it is lazy, and keeps the
\* first after which the rest matches
Take(item, s, pos, after) ==
    LET good == Ends(item, s, pos) \cap after
    IN  CHOOSE e \in good :
            \A m \in good : IF item.greedy THEN e >= m ELSE e <= m

\* acc = <<start, end of item 1, .., end of item k>> is extended to the end
\* offsets of all items of the match that backtracking finds first at start
RECURSIVE EndsFrom(_, _, _, _)
EndsFrom(items, s, can, acc) ==
    IF Len(acc) > Len(items) THEN Tail(acc)
    ELSE EndsFrom(items, s, can,
             Append(acc, Take(items[Len(acc)], s, acc[Len(acc)], can[Len(acc) + 1])))

\* the match of items at offset at (at = -1: there is none)
MatchAt(items, s, can, at) ==
    [start |-> at,
     ends  |-> IF at < 0 THEN NoMatch ELSE EndsFrom(items, s, can, <<at>>)]

\* the leftmost match of items, can being the table of its offsets
FindItems(items, s, can) == MatchAt(items, s, can, LeastOr(can[1], -1))

\* the leftmost match of each alternative, in order
RECURSIVE FindEach(_, _, _, _)
FindEach(alts, s, from, acc) ==
    IF Len(acc) = Len(alts) THEN acc
    ELSE FindEach(alts, s, from,
             Append(acc, FindItems(alts[Len(acc) + 1], s,
                                   Can(alts[Len(acc) + 1], s, from))))

\* the first alternative whose leftmost match starts at offset at (0 when
\* at = -1)
FirstAlt(found, at) ==
    LeastOr({a \in DOMAIN found : at >= 0 /\ found[a].start = at}, 0)

\* the match of alternative a (a = 0: there is none)
Found(found, a) ==
    IF a = 0 THEN [start |-> -1, alt |-> 0, ends |-> NoMatch]
    ELSE [start |-> found[a].start, alt |-> a, ends |-> found[a].ends]

\* of the leftmost matches of the alternatives, the leftmost, and of those
\* the first alternative's
FirstFound(found) ==
    Found(found,
          FirstAlt(found,
                   LeastOr({found[a].start :
                               a \in {b \in DOMAIN found : found[b].start >= 0}}, -1)))

\* the leftmost match at or after offset from: [start, alt, ends], alt = 0
\* when there is none
Find(alts, s, from) == FirstFound(FindEach(alts, s, from, <<>>))

\* the end offset of a match found by Find
FoundEnd(f) == f.ends[Len(f.ends)]

\* the text of s that the match f covers ("" when there is none)
Matched(s, f) ==
    IF f.alt = 0 THEN <<>> ELSE Slice(s, f.start, FoundEnd(f))

\* ------------------------------------------- removeSpecificCommentsSection

StrSpecificComments ==
    <<"S","p","e","c","i","f","i","c"," ","C","o","m","m","e","n","t","s">>

\* #{1,4}\s+\d*\.?\s*\w+
PatHeading ==
    <<LitRep("#", 1, 4), Rep("space", 1, -1), Rep("digit", 0, -1),
      LitRep(".", 0, 1), Rep("space", 0, -1), Rep("word", 1, -1)>>

\* #{1,4}\s+\d*\.?\s*\**Specific Comments\**:?.*?#{1,4}\s+\d*\.?\s*\w+
PatSectionHash ==
    <<LitRep("#", 1, 4), Rep("space", 1, -1), Rep("digit", 0, -1),
      LitRep(".", 0, 1), Rep("space", 0, -1), LitRep("*", 0, -1),
      Str(StrSpecificComments),
      LitRep("*", 0, -1), LitRep(":", 0, 1), Lazy("any")>>
    \o PatHeading

\* \d+\.\s*\*\*Specific Comments\*\*:?
PatSectionBold ==
    <<Rep("digit", 1, -1), Str(<<".">>), Rep("space", 0, -1),
      Str(<<"*", "*">> \o StrSpecificComments \o <<"*", "*">>),
      LitRep(":", 0, 1)>>

\* \d+\.\s*Specific Comments:.*?#{1,4}\s+\d*\.?\s*\w+
PatSectionNumbered ==
    <<Rep("digit", 1, -1), Str(<<".">>), Rep("space", 0, -1),
      Str(StrSpecificComments \o <<":">>), Lazy("any")>>
    \o PatHeading

\* the pattern of src/main.go:463: three alternatives
PatSection == <<PatSectionHash, PatSectionBold, PatSectionNumbered>>

\* #{1,4}\s+\d*\.?\s*\w+|\d+\.\s*\w+  (src/main.go:471)
PatNextSection ==
    <<PatHeading,
      <<Rep("digit", 1, -1), Str(<<".">>), Rep("space", 0, -1), Rep("word", 1, -1)>>>>

\* the replacement of one match m: regexp.FindString of the next-section
\* pattern in m ("" when there is none)
NextSection(m) == Matched(m, Find(PatNextSection, m, 0))

\* regexp.ReplaceAllStringFunc from offset from on: every match, left to
\* right and not overlapping, replaced by NextSection of it
RECURSIVE ReplaceSections(_, _)

\* the text from offset from on, its first match being f
ReplaceFound(s, from, f) ==
    IF f.alt = 0 THEN Slice(s, from, Len(s))
    ELSE Slice(s, from, f.start)
         \o NextSection(Matched(s, f))
         \o ReplaceSections(s, FoundEnd(f))

ReplaceSections(s, from) == ReplaceFound(s, from, Find(PatSection, s, from))

removeSpecificCommentsSection(input) == ReplaceSections(input, 0)

\* ------------------------------------------------------- extractComments

\* "### Specific Comments:" (src/main.go:482)
StrCommentsHeader == <<"#","#","#"," ">> \o StrSpecificComments \o <<":">>

StrFileOpen == <<"-"," ","F","i","l","e",":"," ","\"">>
StrLineOpen == <<"\"",","," ","L","i","n","e"," ">>
StrBodyOpen == <<":"," ","\"">>

\* - File: "([^"]+)", Line (\d+): "([^"]+)"  (src/main.go:497)
PatComment ==
    <<Str(StrFileOpen), Rep("notquote", 1, -1),
      Str(StrLineOpen), Rep("digit", 1, -1),
      Str(StrBodyOpen), Rep("notquote", 1, -1),
      Str(<<"\"">>)>>

\* the items of PatComment that are its three groups
GroupFile == 2
GroupLine == 4
GroupBody == 6

\* the text a group of a match f of PatComment in line captures
Group(line, f, g) == Slice(line, f.ends[g - 1], f.ends[g])

DigitSeq == <<"0","1","2","3","4","5","6","7","8","9">>
DigitVal(c) == (CHOOSE i \in DOMAIN DigitSeq : DigitSeq[i] = c) - 1

\* math.MaxInt64, in digits
StrMaxInt == <<"9","2","2","3","3","7","2","0","3","6","8","5","4","7","7","5","8","0","7">>

RECURSIVE StripZeros(_)
StripZeros(ds) ==
    IF Len(ds) > 1 /\ ds[1] = "0" THEN StripZeros(Tail(ds)) ELSE ds

\* the digits a are a greater number than the digits b of the same length
RECURSIVE DigitsGreater(_, _)
DigitsGreater(a, b) ==
    IF a = <<>> THEN FALSE
    ELSE IF DigitVal(a[1]) # DigitVal(b[1]) THEN DigitVal(a[1]) > DigitVal(b[1])
    ELSE DigitsGreater(Tail(a), Tail(b))

RECURSIVE DecimalValue(_)
DecimalValue(ds) ==
    IF ds = <<>> THEN 0
    ELSE 10 * DecimalValue(SubSeq(ds, 1, Len(ds) - 1)) + DigitVal(ds[Len(ds)])

\* strconv.Atoi of a run of digits: out of range past math.MaxInt64
Atoi(ds) ==
    LET sig == StripZeros(ds)
        range == \/ Len(sig) > Len(StrMaxInt)
                 \/ Len(sig) = Len(StrMaxInt) /\ DigitsGreater(sig, StrMaxInt)
    IN  IF range THEN [err |-> TRUE, val |-> 0]
        ELSE [err |-> FALSE, val |-> DecimalValue(sig)]

\* the comment of a file that is in fileMap (src/main.go:507-516)
CommentOfFile(filePart, lineNumber, comment, fileMap) ==
    IF lineNumber.err THEN <<>>
    ELSE IF filePart \in fileMap
    THEN <<[path |-> filePart, line |-> lineNumber.val, body |-> comment]>>
    ELSE <<>>

\* the comments a trimmed line adds, f being the match of the pattern in it
\* (src/main.go:498-518)
CommentsOfMatch(line, f, fileMap) ==
    IF f.alt = 0 THEN <<>>
    ELSE CommentOfFile(Group(line, f, GroupFile),
                       Atoi(Group(line, f, GroupLine)),
                       Group(line, f, GroupBody), fileMap)

\* one trimmed line of the section (src/main.go:497-518)
CommentsOfLine(line, fileMap) ==
    CommentsOfMatch(line, Find(<<PatComment>>, line, 0), fileMap)

RECURSIVE CommentsOfLines(_, _, _)
CommentsOfLines(lines, i, fileMap) ==
    IF i > Len(lines) THEN <<>>
    ELSE CommentsOfLine(TrimSpace(lines[i]), fileMap)
         \o CommentsOfLines(lines, i + 1, fileMap)

extractComments(response, fileMap) ==
    LET specificCommentsIndex == Index(response, StrCommentsHeader)
    IN  IF specificCommentsIndex = -1 THEN <<>>
        ELSE CommentsOfLines(
                 Split(Slice(response, specificCommentsIndex, Len(response)), "\n"),
                 1, fileMap)

\* ------------------------------------------------------------ simplifyPatch

\* strings.HasPrefix
HasPrefix(s, prefix) == OccursAt(s, prefix, 0)

StrHunkMark == <<"@","@">>

\* strconv.Atoi as simplifyPatch uses it, the error dropped: the value of an
\* optional sign and digits, and 0 for anything else (the numbers of the
\* model stay far below math.MaxInt64)
AtoiOrZero(s) ==
    LET signed == s # <<>> /\ s[1] \in {"+", "-"}
        ds == IF signed THEN Tail(s) ELSE s
    IN  IF ds = <<>> \/ \E i \in DOMAIN ds : ds[i] \notin Digits THEN 0
        ELSE IF signed /\ s[1] = "-" THEN 0 - Atoi(ds).val
        ELSE Atoi(ds).val

\* parts[2][1:] of a line that has three parts is out of range when the
\* third part is the empty string (src/main.go:321)
HeaderPanics(parts) == Len(parts) >= 3 /\ parts[3] = <<>>

\* the line number after a hunk header (src/main.go:319-323)
HeaderLineNumber(parts, lineNumber) ==
    IF Len(parts) >= 3
    THEN AtoiOrZero(Split(Tail(parts[3]), ",")[1])
    ELSE lineNumber

\* a removed line that moves the line number on
NextLineNumber_CountsRemoved(line, lineNumber) ==
    IF HasPrefix(line, StrHunkMark)
    THEN HeaderLineNumber(Split(line, " "), lineNumber)
    ELSE lineNumber + 1

\* the line number after a line of the patch (src/main.go:316-331)
NextLineNumber(line, lineNumber) ==
    IF HasPrefix(line, StrHunkMark)
    THEN HeaderLineNumber(Split(line, " "), lineNumber)
    ELSE IF HasPrefix(line, <<"+">>) THEN lineNumber + 1
    ELSE IF HasPrefix(line, <<"-">>) THEN lineNumber
    ELSE lineNumber + 1

\* "File: %s\nChanges:" (src/main.go:312)
FileRecord(filename) == [kind |-> "File", line |-> 0, text |-> filename]

\* what a line of the patch appends: "+ Line %d: %s" or "- Line %d: %s"
\* with the line number and the line without its first character
\* (src/main.go:324-328)
LineRecords(line, lineNumber) ==
    IF HasPrefix(line, StrHunkMark) THEN <<>>
    ELSE IF HasPrefix(line, <<"+">>)
    THEN <<[kind |-> "+", line |-> lineNumber, text |-> Tail(line)]>>
    ELSE IF HasPrefix(line, <<"-">>)
    THEN <<[kind |-> "-", line |-> lineNumber, text |-> Tail(line)]>>
    ELSE <<>>

\* -------------------------------------------- generateReviewWithAssistant

\* the two verdict tokens the prompt asks for (src/main.go:416)
TokApprove == <<"_","_","a","p","p","r","o","v","e","_","_">>
TokRequestChanges ==
    <<"_","_","r","e","q","u","e","s","t","_","c","h","a","n","g","e","s","_","_">>

\* the action read from the response (src/main.go:438-446)
ParseAction(response) ==
    IF Contains(ToLower(response), TokApprove) THEN "approve"
    ELSE IF Contains(ToLower(response), TokRequestChanges) THEN "request_changes"
    ELSE "request_changes"

\* what generateReviewWithAssistant returns for a response of the assistant
\* (src/main.go:436-455)
ParseResponse(response, fileMap) ==
    [review   |-> removeSpecificCommentsSection(response),
     comments |-> extractComments(response, fileMap),
     action   |-> ParseAction(response)]

\* ------------------------------------------------------------ the inputs

\* the pieces the responses of the assistant are put together from
ChunkProse == <<"o","k"," ">>
ChunkApproveUpper == <<"_","_","A","P","P","R","O","V","E","_","_">>
ChunkRequestMixed ==
    <<"_","_","R","e","q","u","e","s","t","_","C","h","a","n","g","e","s","_","_">>
ChunkHeader == StrCommentsHeader \o <<"\n">>
FileA == <<"a",".","g","o">>
ChunkComment ==
    StrFileOpen \o FileA \o StrLineOpen \o <<"3">> \o StrBodyOpen
    \o <<"f","i","x","\"","\n">>
ChunkNextHeading == <<"#","#"," ","E","n","d","\n">>
\* comment lines the assistant can get wrong: line 0, a body of one space,
\* a file that is not in the pull request
FileB == <<"b",".","g","o">>
ChunkCommentLineZero ==
    StrFileOpen \o FileA \o StrLineOpen \o <<"0">> \o StrBodyOpen
    \o <<"f","i","x","\"","\n">>
ChunkCommentBlankBody ==
    StrFileOpen \o FileA \o StrLineOpen \o <<"3">> \o StrBodyOpen
    \o <<" ","\"","\n">>
ChunkCommentOtherFile ==
    StrFileOpen \o FileB \o StrLineOpen \o <<"3">> \o StrBodyOpen
    \o <<"f","i","x","\"","\n">>
\* a comment section under a heading other than the one extractComments
\* looks for
ChunkHeaderLevelTwo == <<"#","#"," ">> \o StrSpecificComments \o <<"\n">>

Chunks ==
    {ChunkProse, TokApprove, ChunkApproveUpper, TokRequestChanges,
     ChunkRequestMixed, ChunkHeader, ChunkComment, ChunkNextHeading}

\* the longest response, in chunks
MaxChunks == 3

RECURSIVE ChunkTexts(_)
ChunkTexts(n) ==
    IF n = 0 THEN {<<>>}
    ELSE LET shorter == ChunkTexts(n - 1)
         IN  shorter \cup {t \o c : t \in shorter, c \in Chunks}

\* the headings a comment section is given, and none
SectionHeaders == {<<>>, ChunkHeader, ChunkHeaderLevelTwo}
CommentLines ==
    {ChunkComment, ChunkCommentLineZero, ChunkCommentBlankBody,
     ChunkCommentOtherFile}

\* the most comment lines of a section
MaxComments == 2

RECURSIVE CommentTexts(_)
CommentTexts(n) ==
    IF n = 0 THEN {<<>>}
    ELSE LET shorter == CommentTexts(n - 1)
         IN  shorter \cup {t \o c : t \in shorter, c \in CommentLines}

\* responses with a comment section: prose, a heading, comment lines and
\* what follows the section
SectionResponses ==
    {ChunkProse \o h \o t \o e :
        h \in SectionHeaders, t \in CommentTexts(MaxComments),
        e \in {<<>>, ChunkNextHeading, TokApprove}}

\* the responses the text functions are checked on
Responses == ChunkTexts(MaxChunks) \cup SectionResponses

\* the responses the assistant gives in the runs of main
RunResponses ==
    {ChunkProse \o TokApprove,
     ChunkHeader \o ChunkComment \o ChunkNextHeading \o ChunkRequestMixed,
     TokApprove \o ChunkProse \o TokRequestChanges}

\* the lines the patches are put together from: hunk headers, good and
\* bad, and added, removed and other lines
LineHunk == <<"@","@"," ","-","1",",","2"," ","+","5",",","3"," ","@","@">>
LineHunkBare == <<"@","@">>
LineHunkNoNew == <<"@","@"," ","-","1",",","2"," ","@","@">>
LineHunkNonNumeric == <<"@","@"," ","-","1"," ","+","x",",","3"," ","@","@">>
LineHunkEmpty == <<"@","@"," ","-","1"," "," ","@","@">>
LineAdded == <<"+","a">>
LineRemoved == <<"-","b">>
LineContext == <<" ","c">>

PatchLineTexts ==
    {LineHunk, LineHunkBare, LineHunkNoNew, LineHunkNonNumeric, LineHunkEmpty,
     LineAdded, LineRemoved, LineContext}

\* the longest patch, in lines
MaxPatchLines == 4

RECURSIVE PatchTexts(_)
PatchTexts(n) ==
    IF n = 0 THEN {<<>>}
    ELSE IF n = 1 THEN PatchLineTexts \cup {<<>>}
    ELSE LET shorter == PatchTexts(n - 1)
         IN  shorter \cup {t \o <<"\n">> \o l :
                              t \in shorter \ {<<>>}, l \in PatchLineTexts}

\* the patches simplifyPatch is checked on
Patches == PatchTexts(MaxPatchLines)

\* the files of the pull request that have a patch (src/main.go:364-370)
PRFiles == {FileA}

\* generateReviewWithAssistant on each of them: the response and what is
\* returned for it
RunReviews == {[resp |-> t, ret |-> ParseResponse(t, PRFiles)] : t \in RunResponses}

\* the head commits of the pull request over time
NumCommits == 2
Commits == 1..NumCommits

\* ------------------------------------------------------------- the state

VARIABLES
    pc,             \* where the run of main is: "idle" before the first run
    exitCode,       \* the exit status of the run that ended (pc = "done")
    dryRun,         \* -dry
    forcedry,       \* -forcedry
    headSHA,        \* pr.Head.SHA
    mdFile,         \* reviews/<repo>-<sha>-review.md, per commit
    jsonFile,       \* reviews/<repo>-<sha>-review.json, per commit
    savedReview,    \* the review loaded from the files, or nil
    checksPassed,   \* no check run of the head commit concluded "failure"
    isSelfReview,   \* the reviewer is the author of the pull request
    pendingReview,  \* a PENDING review is listed for the pull request
    responseText,   \* the response of the assistant in this run
    review,         \* the narrative
    reviewComments, \* the line comments
    action,         \* "approve" or "request_changes"
    llmCalls,       \* calls of the assistant in this run
    sinkCalls,      \* DismissReview and CreateReview calls of this run, in order
    saveErr,        \* the error saveReviewToFile returned in this run
    patch,          \* file.Patch of the file simplifyPatch is working on
    patchLines,     \* lines: the lines of the patch
    lineIndex,      \* how many of them the loop has been through
    patchLineNumber, \* lineNumber: the running line number in the new file
    simplifiedChanges \* what simplifyPatch has appended so far

vars == <<pc, exitCode, dryRun, forcedry, headSHA, mdFile, jsonFile,
          savedReview, checksPassed, isSelfReview, pendingReview,
          responseText, review, reviewComments, action, llmCalls, sinkCalls,
          saveErr, patch, patchLines, lineIndex, patchLineNumber,
          simplifiedChanges>>

\* the variables of simplifyPatch
patchVars ==
    <<patch, patchLines, lineIndex, patchLineNumber, simplifiedChanges>>

\* the variables of main and of generateReviewWithAssistant
runVars ==
    <<dryRun, forcedry, headSHA, mdFile, jsonFile, savedReview, checksPassed,
      isSelfReview, pendingReview, responseText, review, reviewComments,
      action, llmCalls, sinkCalls, saveErr>>

NoFile == [exists |-> FALSE, data |-> <<>>]
NoJson == [exists |-> FALSE,
           data |-> [review |-> <<>>, null_comments |-> TRUE,
                     review_comments |-> <<>>, action |-> ""]]
NilReview == [isNil |-> TRUE, Review |-> <<>>, ReviewComments |-> <<>>, Action |-> ""]

\* ------------------------------------------------------- the review cache

\* json.MarshalIndent of a SavedReview (src/main.go:20-24, 246): a nil slice
\* of comments is written as null, the comments as objects of path, line, body
Marshal(sr) ==
    [review |-> sr.Review,
     null_comments |-> (sr.ReviewComments = <<>>),
     review_comments |->
        [i \in DOMAIN sr.ReviewComments |->
            [path |-> sr.ReviewComments[i].path,
             line |-> sr.ReviewComments[i].line,
             body |-> sr.ReviewComments[i].body]],
     action |-> sr.Action]

\* json.Unmarshal into a SavedReview (src/main.go:272-273)
Unmarshal(doc) ==
    [isNil |-> FALSE,
     Review |-> doc.review,
     ReviewComments |->
        IF doc.null_comments THEN <<>>
        ELSE [i \in DOMAIN doc.review_comments |->
                [path |-> doc.review_comments[i].path,
                 line |-> doc.review_comments[i].line,
                 body |-> doc.review_comments[i].body]],
     Action |-> doc.action]

\* loadReviewFromFile that leaves the review content as the .json file has it
loadReviewFromFile_NoMdContent(md, json) ==
    IF ~md.exists THEN NilReview
    ELSE IF ~json.exists THEN NilReview
    ELSE Unmarshal(json.data)

\* loadReviewFromFile: the review of the two files md and json, nil when
\* either cannot be read
loadReviewFromFile(md, json) ==
    IF ~md.exists THEN NilReview
    ELSE IF ~json.exists THEN NilReview
    ELSE [Unmarshal(json.data) EXCEPT !.Review = md.data]

\* the .md file saveReviewToFile writes (src/main.go:233-234)
SavedMd(rv) == [exists |-> TRUE, data |-> rv]

\* the .json file saveReviewToFile writes: the review content left empty
\* (src/main.go:240-250)
SavedJson(comments, act) ==
    [exists |-> TRUE,
     data |-> Marshal([Review |-> <<>>, ReviewComments |-> comments, Action |-> act])]

\* a lookup that stats a path no file is written to
Lookup_WrongPath(md, json) == NilReview

\* the lookup of main (src/main.go:67-71): os.Stat of the .json file, then
\* loadReviewFromFile
Lookup(md, json) ==
    IF json.exists THEN loadReviewFromFile(md, json) ELSE NilReview

\* ------------------------------------------------------- the decision

StrNoteSelfApproved ==
    <<"\n","\n","*","*","N","o","t","e",":","*","*"," ","T","h","i","s"," ",
      "i","s"," ","a"," ","s","e","l","f","-","a","p","p","r","o","v","e",
      "d"," ","P","R",".">>
StrNoteSelfRequested ==
    <<"\n","\n","*","*","N","o","t","e",":","*","*"," ","T","h","i","s"," ",
      "i","s"," ","a"," ","s","e","l","f","-","r","e","q","u","e","s","t",
      "e","d"," ","c","h","a","n","g","e",".">>

\* the body of a self-review (src/main.go:180-185)
CommentBody(rv, act) ==
    IF act = "approve" THEN rv \o StrNoteSelfApproved
    ELSE IF act = "request_changes" THEN rv \o StrNoteSelfRequested
    ELSE rv

\* a state decided from the recommendation alone
ReviewState_IgnoresChecks(act, passed) ==
    IF act = "approve" THEN "APPROVE" ELSE "REQUEST_CHANGES"

\* the state of a review of somebody else's pull request (src/main.go:202-210)
ReviewState(act, passed) ==
    IF act = "approve" /\ passed THEN "APPROVE"
    ELSE IF act = "request_changes" \/ ~passed THEN "REQUEST_CHANGES"
    ELSE "REQUEST_CHANGES"

DismissCall(result) ==
    [op |-> "DismissReview", result |-> result, body |-> <<>>, event |-> "",
     comments |-> <<>>]
CreateCall(body, event, comments, result) ==
    [op |-> "CreateReview", result |-> result, body |-> body, event |-> event,
     comments |-> comments]

\* ------------------------------------------------------------- main

Init ==
    /\ pc = "idle"
    /\ exitCode = 0
    /\ dryRun = FALSE
    /\ forcedry = FALSE
    /\ headSHA = 1
    /\ mdFile = [c \in Commits |-> NoFile]
    /\ jsonFile = [c \in Commits |-> NoJson]
    /\ savedReview = NilReview
    /\ checksPassed = TRUE
    /\ isSelfReview = FALSE
    /\ pendingReview = FALSE
    /\ responseText = <<>>
    /\ review = <<>>
    /\ reviewComments = <<>>
    /\ action = ""
    /\ llmCalls = 0
    /\ sinkCalls = <<>>
    /\ saveErr = "none"
    /\ patch = <<>>
    /\ patchLines = <<>>
    /\ lineIndex = 0
    /\ patchLineNumber = 0
    /\ simplifiedChanges = <<>>

\* the variables of a run as they are when main starts
FreshRun ==
    /\ savedReview' = NilReview
    /\ checksPassed' = TRUE
    /\ isSelfReview' = FALSE
    /\ pendingReview' = FALSE
    /\ responseText' = <<>>
    /\ review' = <<>>
    /\ reviewComments' = <<>>
    /\ action' = ""
    /\ llmCalls' = 0
    /\ sinkCalls' = <<>>
    /\ saveErr' = "none"

\* the process ends: return from main (0), os.Exit(1) / log.Fatalf (1) or a
\* panic (2)
Exit(code) == pc' = "done" /\ exitCode' = code

\* a commit is pushed to the pull request between two runs
NewCommit ==
    /\ UNCHANGED patchVars
    /\ pc \in {"idle", "done"}
    /\ \E c \in Commits : c # headSHA /\ headSHA' = c
    /\ pc' = "idle"
    /\ exitCode' = 0
    /\ dryRun' = FALSE
    /\ forcedry' = FALSE
    /\ FreshRun
    /\ UNCHANGED <<mdFile, jsonFile>>

\* main is started with its flags (src/main.go:35-46)
StartRun ==
    /\ UNCHANGED patchVars
    /\ pc \in {"idle", "done"}
    /\ pc' = "fetch_pr"
    /\ exitCode' = 0
    /\ dryRun' \in BOOLEAN
    /\ forcedry' \in BOOLEAN
    /\ FreshRun
    /\ UNCHANGED <<headSHA, mdFile, jsonFile>>

\* client.PullRequests.Get (src/main.go:57-61)
FetchPR ==
    /\ UNCHANGED patchVars
    /\ pc = "fetch_pr"
    /\ \/ pc' = "check_cache" /\ UNCHANGED exitCode
       \/ Exit(1)
    /\ UNCHANGED <<dryRun, forcedry, headSHA, mdFile, jsonFile, savedReview,
                   checksPassed, isSelfReview, pendingReview, responseText,
                   review, reviewComments, action, llmCalls, sinkCalls, saveErr>>

\* the review file of the head commit is looked up (src/main.go:64-80)
CheckCache ==
    /\ UNCHANGED patchVars
    /\ pc = "check_cache"
    /\ savedReview' = Lookup(mdFile[headSHA], jsonFile[headSHA])
    /\ IF ~savedReview'.isNil /\ dryRun
       THEN Exit(0)
       ELSE pc' = "fetch_context" /\ UNCHANGED exitCode
    /\ UNCHANGED <<dryRun, forcedry, headSHA, mdFile, jsonFile,
                   checksPassed, isSelfReview, pendingReview, responseText,
                   review, reviewComments, action, llmCalls, sinkCalls, saveErr>>

\* the user, the check runs, the files and the reviews are fetched
\* (src/main.go:83-117, 176)
FetchContext ==
    /\ UNCHANGED patchVars
    /\ pc = "fetch_context"
    /\ \/ /\ checksPassed' \in BOOLEAN
          /\ isSelfReview' \in BOOLEAN
          /\ pendingReview' \in BOOLEAN
          /\ pc' = "handle_pending"
          /\ UNCHANGED exitCode
       \/ /\ Exit(1)
          /\ UNCHANGED <<checksPassed, isSelfReview, pendingReview>>
    /\ UNCHANGED <<dryRun, forcedry, headSHA, mdFile, jsonFile, savedReview,
                   responseText, review, reviewComments, action, llmCalls,
                   sinkCalls, saveErr>>

\* a dismissal whose error is not looked at
HandlePending_IgnoresError ==
    /\ UNCHANGED patchVars
    /\ pc = "handle_pending"
    /\ IF pendingReview
       THEN IF dryRun
            THEN Exit(0) /\ UNCHANGED sinkCalls
            ELSE /\ \E result \in {"ok", "error"} :
                        sinkCalls' = Append(sinkCalls, DismissCall(result))
                 /\ pc' = "generate"
                 /\ UNCHANGED exitCode
       ELSE pc' = "generate" /\ UNCHANGED <<exitCode, sinkCalls>>
    /\ UNCHANGED <<dryRun, forcedry, headSHA, mdFile, jsonFile, savedReview,
                   checksPassed, isSelfReview, pendingReview, responseText,
                   review, reviewComments, action, llmCalls, saveErr>>

\* a pending review is dismissed (src/main.go:119-134)
HandlePending ==
    /\ UNCHANGED patchVars
    /\ pc = "handle_pending"
    /\ IF pendingReview
       THEN IF dryRun
            THEN Exit(0) /\ UNCHANGED sinkCalls
            ELSE \/ /\ sinkCalls' = Append(sinkCalls, DismissCall("ok"))
                    /\ pc' = "generate"
                    /\ UNCHANGED exitCode
                 \/ /\ sinkCalls' = Append(sinkCalls, DismissCall("error"))
                    /\ Exit(1)
       ELSE pc' = "generate" /\ UNCHANGED <<exitCode, sinkCalls>>
    /\ UNCHANGED <<dryRun, forcedry, headSHA, mdFile, jsonFile, savedReview,
                   checksPassed, isSelfReview, pendingReview, responseText,
                   review, reviewComments, action, llmCalls, saveErr>>

\* the flag pointer tested instead of the flag
MustGenerate_PointerTest == TRUE

\* the review is generated (src/main.go:141)
MustGenerate == savedReview.isNil \/ forcedry

\* the review is generated by the assistant or taken from the file
\* (src/main.go:136-162, 422-455)
Generate ==
    /\ UNCHANGED patchVars
    /\ pc = "generate"
    /\ IF MustGenerate
       THEN \/ /\ llmCalls' = llmCalls + 1
               /\ \/ \E g \in RunReviews :
                        /\ responseText' = g.resp
                        /\ review' = g.ret.review
                        /\ reviewComments' = g.ret.comments
                        /\ action' = g.ret.action
                        /\ pc' = "finish"
                        /\ UNCHANGED exitCode
                  \/ /\ Exit(1)
                     /\ UNCHANGED <<responseText, review, reviewComments, action>>
            \/ \* simplifyPatch panics on a patch of the pull request
               \* (src/main.go:373, 321), before the assistant is called
               /\ Exit(2)
               /\ UNCHANGED <<llmCalls, responseText, review, reviewComments, action>>
       ELSE /\ review' = savedReview.Review
            /\ reviewComments' = savedReview.ReviewComments
            /\ action' = savedReview.Action
            /\ pc' = "finish"
            /\ UNCHANGED <<exitCode, llmCalls, responseText>>
    /\ UNCHANGED <<dryRun, forcedry, headSHA, mdFile, jsonFile, savedReview,
                   checksPassed, isSelfReview, pendingReview, sinkCalls, saveErr>>

\* only -forcedry ends the run before posting
MustSave_ForceOnly == forcedry

\* the run saves the review and ends without posting (src/main.go:164)
MustSave == dryRun \/ forcedry

\* saveReviewToFile that returns after the .md file
saveReviewToFile_MdOnly(failing) ==
    /\ saveErr' = failing
    /\ mdFile' = IF failing = "md" THEN mdFile
                 ELSE [mdFile EXCEPT ![headSHA] = SavedMd(review)]
    /\ jsonFile' = jsonFile

\* saveReviewToFile (src/main.go:231-256): the .md file, then the .json
\* file; a write that fails leaves its file as it was and ends the function
saveReviewToFile(failing) ==
    /\ saveErr' = failing
    /\ mdFile' = IF failing = "md" THEN mdFile
                 ELSE [mdFile EXCEPT ![headSHA] = SavedMd(review)]
    /\ jsonFile' = IF failing \in {"md", "json"} THEN jsonFile
                   ELSE [jsonFile EXCEPT ![headSHA] = SavedJson(reviewComments, action)]

\* the review is saved, the error only logged, and main returns
\* (src/main.go:164-173)
Save ==
    /\ UNCHANGED patchVars
    /\ pc = "finish"
    /\ MustSave
    /\ \E failing \in {"none", "md", "json"} : saveReviewToFile(failing)
    /\ Exit(0)
    /\ UNCHANGED <<dryRun, forcedry, headSHA, savedReview, checksPassed,
                   isSelfReview, pendingReview, responseText, review,
                   reviewComments, action, llmCalls, sinkCalls>>

\* the self-review is posted as a comment (src/main.go:178-199)
PostSelfReview ==
    /\ UNCHANGED patchVars
    /\ pc = "finish"
    /\ ~MustSave
    /\ isSelfReview
    /\ \E result \in {"ok", "422", "error"} :
          /\ sinkCalls' = Append(sinkCalls,
                CreateCall(CommentBody(review, action), "COMMENT", reviewComments, result))
          /\ IF result = "ok" THEN Exit(0) ELSE Exit(1)
    /\ UNCHANGED <<dryRun, forcedry, headSHA, mdFile, jsonFile, savedReview,
                   checksPassed, isSelfReview, pendingReview, responseText,
                   review, reviewComments, action, llmCalls, saveErr>>

\* the review is posted with its state (src/main.go:200-218, 524-544)
PostReview ==
    /\ UNCHANGED patchVars
    /\ pc = "finish"
    /\ ~MustSave
    /\ ~isSelfReview
    /\ \E result \in {"ok", "422", "error"} :
          /\ sinkCalls' = Append(sinkCalls,
                CreateCall(review, ReviewState(action, checksPassed), reviewComments, result))
          /\ IF result \in {"ok", "422"} THEN Exit(0) ELSE Exit(1)
    /\ UNCHANGED <<dryRun, forcedry, headSHA, mdFile, jsonFile, savedReview,
                   checksPassed, isSelfReview, pendingReview, responseText,
                   review, reviewComments, action, llmCalls, saveErr>>

Next ==
    \/ NewCommit
    \/ StartRun
    \/ FetchPR
    \/ CheckCache
    \/ FetchContext
    \/ HandlePending
    \/ Generate
    \/ Save
    \/ PostSelfReview
    \/ PostReview

Spec == Init /\ [][Next]_vars

\* --------------------------------------- the text functions on their own

\* a response of the assistant, about to be read
InitExtract ==
    /\ pc = "parse"
    /\ exitCode = 0
    /\ dryRun = FALSE
    /\ forcedry = FALSE
    /\ headSHA = 1
    /\ mdFile = [c \in Commits |-> NoFile]
    /\ jsonFile = [c \in Commits |-> NoJson]
    /\ savedReview = NilReview
    /\ checksPassed = TRUE
    /\ isSelfReview = FALSE
    /\ pendingReview = FALSE
    /\ responseText \in Responses
    /\ review = <<>>
    /\ reviewComments = <<>>
    /\ action = ""
    /\ llmCalls = 1
    /\ sinkCalls = <<>>
    /\ saveErr = "none"
    /\ patch = <<>>
    /\ patchLines = <<>>
    /\ lineIndex = 0
    /\ patchLineNumber = 0
    /\ simplifiedChanges = <<>>

\* the response is read (src/main.go:436-455)
Parse ==
    /\ UNCHANGED patchVars
    /\ pc = "parse"
    /\ LET r == ParseResponse(responseText, PRFiles)
       IN  /\ review' = r.review
           /\ reviewComments' = r.comments
           /\ action' = r.action
    /\ pc' = "parsed"
    /\ UNCHANGED <<exitCode, dryRun, forcedry, headSHA, mdFile, jsonFile,
                   savedReview, checksPassed, isSelfReview, pendingReview,
                   responseText, llmCalls, sinkCalls, saveErr>>

NextExtract == Parse

SpecExtract == InitExtract /\ [][NextExtract]_vars

\* ------------------------------------------------ simplifyPatch on its own

\* simplifyPatch has come to a file with a patch, has appended the record
\* of the file and split the patch (src/main.go:310-314)
InitPatch ==
    /\ pc = "simplify"
    /\ exitCode = 0
    /\ dryRun = FALSE
    /\ forcedry = FALSE
    /\ headSHA = 1
    /\ mdFile = [c \in Commits |-> NoFile]
    /\ jsonFile = [c \in Commits |-> NoJson]
    /\ savedReview = NilReview
    /\ checksPassed = TRUE
    /\ isSelfReview = FALSE
    /\ pendingReview = FALSE
    /\ responseText = <<>>
    /\ review = <<>>
    /\ reviewComments = <<>>
    /\ action = ""
    /\ llmCalls = 0
    /\ sinkCalls = <<>>
    /\ saveErr = "none"
    /\ patch \in Patches
    /\ patchLines = Split(patch, "\n")
    /\ lineIndex = 0
    /\ patchLineNumber = 0
    /\ simplifiedChanges = <<FileRecord(FileA)>>

\* the line the loop is at
CurrentLine == patchLines[lineIndex + 1]

\* one turn of the loop over the lines (src/main.go:315-332); a panic ends
\* the process with status 2
SimplifyLine ==
    /\ pc = "simplify"
    /\ lineIndex < Len(patchLines)
    /\ IF HasPrefix(CurrentLine, StrHunkMark) /\ HeaderPanics(Split(CurrentLine, " "))
       THEN /\ pc' = "panic"
            /\ exitCode' = 2
            /\ UNCHANGED <<lineIndex, patchLineNumber, simplifiedChanges>>
       ELSE /\ patchLineNumber' = NextLineNumber(CurrentLine, patchLineNumber)
            /\ simplifiedChanges' =
                   simplifiedChanges \o LineRecords(CurrentLine, patchLineNumber)
            /\ lineIndex' = lineIndex + 1
            /\ pc' = IF lineIndex + 1 = Len(patchLines) THEN "simplified" ELSE "simplify"
            /\ UNCHANGED exitCode
    /\ UNCHANGED <<patch, patchLines>>
    /\ UNCHANGED runVars

NextPatch == SimplifyLine

SpecPatch == InitPatch /\ [][NextPatch]_vars

\* ------------------------------------------------------------- the claims

\* the review a run holds in review, reviewComments and action
HeldReview ==
    [isNil |-> FALSE, Review |-> review, ReviewComments |-> reviewComments,
     Action |-> action]

\* the review generateReviewWithAssistant returned for a response
ReviewOf(g) ==
    [isNil |-> FALSE, Review |-> g.ret.review, ReviewComments |-> g.ret.comments,
     Action |-> g.ret.action]

\* the cache entry of a commit, as a lookup finds it
Entry(c) == Lookup(mdFile[c], jsonFile[c])

HasApproveToken == Contains(ToLower(responseText), TokApprove)
HasRequestToken == Contains(ToLower(responseText), TokRequestChanges)

\* C1: the verdict read from a response is approve only when the approve
\* token occurs (in any case) and the request-changes token does not; with
\* both tokens, or neither, it is request_changes.
C1_FailClosed ==
    pc = "parsed" =>
        /\ action \in {"approve", "request_changes"}
        /\ action = "approve" <=> (HasApproveToken /\ ~HasRequestToken)

CreateCalls == {i \in DOMAIN sinkCalls : sinkCalls[i].op = "CreateReview"}

\* C2: the state a posting run sends is COMMENT for a self-review, otherwise
\* APPROVE exactly when the verdict is approve and the checks passed, and
\* REQUEST_CHANGES otherwise; only runs with neither flag post.
C2_DecisionTable ==
    \A i \in CreateCalls :
        /\ ~dryRun /\ ~forcedry
        /\ sinkCalls[i].event =
              IF isSelfReview THEN "COMMENT"
              ELSE IF action = "approve" /\ checksPassed THEN "APPROVE"
              ELSE "REQUEST_CHANGES"

\* a cached approve verdict is posted as REQUEST_CHANGES: the checks failed
C2_Witness ==
    /\ pc = "done"
    /\ ~savedReview.isNil
    /\ action = "approve"
    /\ ~checksPassed
    /\ ~isSelfReview
    /\ \E i \in CreateCalls : sinkCalls[i].event = "REQUEST_CHANGES"

\* C3: a run with -dry issues no DismissReview and no CreateReview call.
C3_PreviewWritesNothing == dryRun => sinkCalls = <<>>

\* a -dry run that found a pending review has ended without a call
C3_Witness ==
    /\ pc = "done"
    /\ dryRun
    /\ exitCode = 0
    /\ pendingReview
    /\ sinkCalls = <<>>

\* C4: a -dry run that ends without a failure leaves a loadable cache entry
\* for the head commit.
C4_PreviewLeavesEntry ==
    (pc = "done" /\ dryRun /\ exitCode = 0 /\ saveErr = "none")
        => ~Entry(headSHA).isNil

\* C5: a -forcedry run in which nothing fails calls the assistant and leaves
\* the review it generated as the cache entry of the head commit (stated
\* for the runs that find no pending review).
C5_ForceRegenerates ==
    (pc = "done" /\ forcedry /\ exitCode = 0 /\ saveErr = "none" /\ ~pendingReview)
        => /\ llmCalls = 1
           /\ \E g \in RunReviews : g.resp = responseText /\ Entry(headSHA) = ReviewOf(g)

\* C6: a run without -forcedry that loaded a cache entry never calls the
\* assistant, leaves the entry as it is, and what it posts is the entry's
\* comments, the entry's narrative (in a self-review followed by the note
\* for the entry's verdict) and the state decided from the entry's verdict.
C6_CacheReuse ==
    (~forcedry /\ ~savedReview.isNil) =>
        /\ llmCalls = 0
        /\ Entry(headSHA) = savedReview
        /\ pc \in {"finish", "done"} /\ exitCode = 0 /\ ~dryRun => HeldReview = savedReview
        /\ \A i \in CreateCalls :
              /\ sinkCalls[i].comments = savedReview.ReviewComments
              /\ sinkCalls[i].body =
                    IF isSelfReview
                    THEN CommentBody(savedReview.Review, savedReview.Action)
                    ELSE savedReview.Review
              /\ sinkCalls[i].event =
                    IF isSelfReview THEN "COMMENT"
                    ELSE ReviewState(savedReview.Action, checksPassed)

\* a run with neither flag has posted the comments of a cached review
C6_Witness ==
    /\ pc = "done"
    /\ ~forcedry /\ ~dryRun
    /\ ~savedReview.isNil
    /\ savedReview.ReviewComments # <<>>
    /\ CreateCalls # {}

\* the run found no loadable entry and the assistant answered
GeneratedAfresh ==
    /\ pc = "done"
    /\ ~forcedry
    /\ savedReview.isNil
    /\ llmCalls = 1
    /\ action # ""

C8_EntryKept ==
    [][\A c \in Commits :
          (mdFile[c].exists /\ jsonFile[c].exists /\ ~forcedry) =>
              /\ mdFile'[c] = mdFile[c]
              /\ jsonFile'[c] = jsonFile[c]]_vars

\* a -dry run without -forcedry has ended on an entry it loaded
C8_Witness ==
    /\ pc = "done"
    /\ dryRun /\ ~forcedry
    /\ ~savedReview.isNil
    /\ Entry(headSHA) = savedReview

\* C9: what a lookup returns is absent or the review of one single store:
\* never the narrative of one with the verdict and comments of another.
C9_AtomicOrAbsent ==
    \A c \in Commits :
        pc = "check_cache" /\ c = headSHA =>
            \/ Entry(c).isNil
            \/ \E g \in RunReviews : Entry(c) = ReviewOf(g)

\* C10: after a store that wrote both files, a lookup of the same commit
\* returns the stored narrative, verdict and comments.
C10_RoundTrip ==
    (pc = "done" /\ (dryRun \/ forcedry) /\ action # "" /\ saveErr = "none")
        => Entry(headSHA) = HeldReview

\* a review with a comment has been stored and is looked up by the next run
C10_Witness ==
    /\ pc = "fetch_context"
    /\ ~savedReview.isNil
    /\ Len(savedReview.ReviewComments) = 1
    /\ savedReview.Review # <<>>
    /\ savedReview.Action = "request_changes"

DismissCalls == {i \in DOMAIN sinkCalls : sinkCalls[i].op = "DismissReview"}

\* C11: in a run without -dry that found a pending review, every
\* CreateReview call comes after a DismissReview call that succeeded, and a
\* run whose DismissReview call failed issues no CreateReview call.
C11_DismissBeforeCreate ==
    (pendingReview /\ ~dryRun) =>
        /\ \A i \in CreateCalls :
              \E j \in DismissCalls : j < i /\ sinkCalls[j].result = "ok"
        /\ (\E j \in DismissCalls : sinkCalls[j].result = "error")
              => CreateCalls = {}

\* a run that found a pending review has dismissed it and then posted
C11_Witness ==
    /\ pc = "done"
    /\ pendingReview
    /\ ~dryRun
    /\ Len(sinkCalls) = 2
    /\ sinkCalls[1] = DismissCall("ok")
    /\ sinkCalls[2].op = "CreateReview"


\* C12: a run whose CreateReview call was answered with 422 ends without an
\* error exit and has issued that call once, for a self-review and for a
\* review of somebody else's pull request alike.
C12_ConflictIsSoft ==
    (pc = "done" /\ \E i \in CreateCalls : sinkCalls[i].result = "422") =>
        /\ exitCode = 0
        /\ Cardinality(CreateCalls) = 1


\* C13: every comment extracted from a response names a file of the pull
\* request, has a line number of at least 1 and has a body that is not
\* empty once its white space is trimmed.
C13_AcceptedComments ==
    pc = "parsed" =>
        \A i \in DOMAIN reviewComments :
            /\ reviewComments[i].path \in PRFiles
            /\ reviewComments[i].line >= 1
            /\ TrimSpace(reviewComments[i].body) # <<>>


\* C14: for a response without the header "### Specific Comments:" no
\* comment is extracted and the narrative is the response as it was.
C14_NoHeaderNoChange ==
    (pc = "parsed" /\ ~Contains(responseText, StrCommentsHeader)) =>
        /\ reviewComments = <<>>
        /\ review = responseText


\* the lines of the patch that begin with "+", and the records for them
AddedLines == {i \in DOMAIN patchLines : HasPrefix(patchLines[i], <<"+">>)}
IsAddedRecord(r) == r.kind = "+"
AddedRecords == SelectSeq(simplifiedChanges, IsAddedRecord)

\* the k-th of the lines that begin with "+"
AddedIndex(k) ==
    CHOOSE i \in AddedLines : Cardinality({j \in AddedLines : j < i}) = k - 1

\* the hunk header a line is under: the last line before it that begins
\* with "@@", 0 when there is none
HeadersBefore(i) == {j \in 1..(i - 1) : HasPrefix(patchLines[j], StrHunkMark)}
HunkOf(i) ==
    IF HeadersBefore(i) = {} THEN 0
    ELSE CHOOSE h \in HeadersBefore(i) : \A j \in HeadersBefore(i) : j <= h

\* the new-file start line a well-formed hunk header states: the digits
\* that follow its " +"
NewStart(header) ==
    DecimalValue(Slice(header, Index(header, <<" ","+">>) + 2,
                       Index(header, <<" ","+">>) + 2
                           + RunLength(header, Index(header, <<" ","+">>) + 2,
                                       Rep("digit", 1, -1))))

\* the added lines and the other lines that are not removed lines (the
\* context) between the header of line i and line i
CountedBefore(i) ==
    Cardinality({j \in (HunkOf(i) + 1)..(i - 1) : ~HasPrefix(patchLines[j], <<"-">>)})

\* C15: simplifyPatch appends one "+" record for each line of the patch that
\* begins with "+", in the order of the patch; under one hunk header the
\* line numbers of these records increase strictly, and under a well-formed
\* header each is the header's new-file start line plus the number of added
\* and context lines between the header and the line.
C15_AddedRecords ==
    pc = "simplified" =>
        /\ Len(AddedRecords) = Cardinality(AddedLines)
        /\ \A k \in DOMAIN AddedRecords :
              /\ AddedRecords[k].text = Tail(patchLines[AddedIndex(k)])
              /\ (HunkOf(AddedIndex(k)) # 0 /\ patchLines[HunkOf(AddedIndex(k))] = LineHunk)
                    => AddedRecords[k].line = NewStart(LineHunk) + CountedBefore(AddedIndex(k))
        /\ \A k, m \in DOMAIN AddedRecords :
              (k < m /\ HunkOf(AddedIndex(k)) = HunkOf(AddedIndex(m)))
                  => AddedRecords[k].line < AddedRecords[m].line

\* a hunk with a context line, a removed line and an added line has been
\* gone through
C15_Witness ==
    /\ pc = "simplified"
    /\ patchLines = <<LineHunk, LineContext, LineRemoved, LineAdded>>
    /\ Len(AddedRecords) = 1
    /\ AddedRecords[1].line = 6


\* the loop is at a line that begins with "@@" and is not a well-formed
\* hunk header
AtMalformedHeader ==
    /\ pc = "simplify"
    /\ HasPrefix(CurrentLine, StrHunkMark)
    /\ CurrentLine # LineHunk

\* C16: at a line that begins with "@@" and has no parsable "+start,count"
\* field simplifyPatch does not fail and leaves the line number as it was
\* before the line.
C16_MalformedHeaderTolerated ==
    [][AtMalformedHeader => (pc' # "panic" /\ patchLineNumber' = patchLineNumber)]_vars


\* C17: a run that has ended after a DismissReview call that succeeded has
\* issued a CreateReview call after it.
C17_DismissThenCreate ==
    pc = "done" =>
        \A j \in DismissCalls :
            sinkCalls[j].result = "ok" => \E i \in CreateCalls : i > j

====
